---- MODULE Spec2Model ----
(***************************************************************************)
(* Model of main.py: the pypiserver synchronizer plugin.  A worker's      *)
(* SynchronizerPlugin runs sync_data_before_change (pull the remote       *)
(* files, store a snapshot of the local listing), the request handler     *)
(* changes the local directory, and sync_data_after_change replays the    *)
(* difference between the snapshot and the local listing on the remote.   *)
(* File names are 1..MaxNames; a directory is the set of names in it.     *)
(***************************************************************************)
EXTENDS FiniteSets, Integers, Sequences, TLC

MaxNames == 2

Names == 1 .. MaxNames

\* gunicorn -w 2: every worker process builds its own plugin in get_app().
Workers == {"w1", "w2"}

\* The workers that serve requests in the sequential specification.
SingleWorker == {"w1"}

REMOVAL == "removal"

ADDITION == "addition"

\* AppConfiguration.driver, and a third kind for a driver subclass whose
\* transfer methods raise as those of StandardFileStoreManager do.
DriverKinds == {"local", "gcs", "custom"}

ConcreteDrivers == {"local", "gcs"}

OutcomesAnyRaise(d) == {"ok", "fail", "raise"}

\* What one transfer call of the driver can do: succeed, fail inside the
\* driver's try block (returns False), or raise out of the driver.
Outcomes(d) == IF d \in ConcreteDrivers THEN {"ok", "fail"} ELSE {"ok", "fail", "raise"}

VARIABLES
    local,          \* names in the local directory (shared by the workers)
    remote,         \* names at the remote directory or bucket prefix
    driver,         \* the driver class every worker builds
    pc,             \* per worker: position in the request cycle
    snapshot,       \* per worker: StorageClient._current_local_contents
    remote_files,   \* per worker: names pull_all_remote_files has yet to copy
    pullNames,      \* per worker: the names get_remote_file_names returned
    pullOrder,      \* per worker: names in the order they were copied
    pullResults,    \* per worker: the results list of pull_all_remote_files
    pending,        \* per worker: events the generator has yet to yield
    events,         \* per worker: events yielded so far, with what process did
    beforeOutcome,  \* per worker: how sync_data_before_change ended this cycle
    afterOutcome,   \* per worker: how sync_data_after_change ended this cycle
    snapBefore,     \* per worker: snapshot when sync_data_before_change began
    captured,       \* per worker: store_local_snapshot has assigned once
    workAdded,      \* per worker: names its request handler added this cycle
    workDeleted,    \* per worker: names its request handler removed this cycle
    cycleKind       \* per worker: whether the cycle before this one was abandoned

vars == <<local, remote, driver, pc, snapshot, remote_files, pullNames, pullOrder,
          pullResults, pending, events, beforeOutcome, afterOutcome, snapBefore,
          captured, workAdded, workDeleted, cycleKind>>

\* _current_local_contents = None
NoSnapshot == [is_none |-> TRUE, names |-> {}]

Stored(s) == [is_none |-> FALSE, names |-> s]

get_last_local_snapshot_lenient(s) == [raises |-> FALSE, value |-> s.names]

\* get_last_local_snapshot: `if not self._current_local_contents: raise ValueError`.
\* None and the empty set are both falsy.
get_last_local_snapshot(s) ==
    IF s.is_none \/ s.names = {}
    THEN [raises |-> TRUE, value |-> {}]
    ELSE [raises |-> FALSE, value |-> s.names]

get_change_events_no_subtract(last_snapshot, current_contents) ==
    << [type |-> REMOVAL, difference |-> last_snapshot],
       [type |-> ADDITION, difference |-> current_contents \ last_snapshot] >>

get_change_events_reversed(last_snapshot, current_contents) ==
    << [type |-> ADDITION, difference |-> current_contents \ last_snapshot],
       [type |-> REMOVAL, difference |-> last_snapshot \ current_contents] >>

\* The body of the generator after both listings are known: the two events in
\* the order they are yielded.
get_change_events(last_snapshot, current_contents) ==
    << [type |-> REMOVAL, difference |-> last_snapshot \ current_contents],
       [type |-> ADDITION, difference |-> current_contents \ last_snapshot] >>

\* An event as process() starts on it.
NewEvent(e) ==
    [type |-> e.type, difference |-> e.difference, handled |-> {}, falses |-> {},
     raisedOn |-> {}, done |-> FALSE, ret |-> FALSE]

process_return_all(falses, raised) == IF raised THEN FALSE ELSE falses = {}

\* What process() returns: True after the list comprehension, False in the
\* except branch.
process_return(falses, raised) == IF raised THEN FALSE ELSE TRUE

Init ==
    /\ local \in SUBSET Names
    /\ remote \in SUBSET Names
    /\ driver \in DriverKinds
    /\ pc = [w \in Workers |-> "idle"]
    /\ snapshot = [w \in Workers |-> NoSnapshot]
    /\ remote_files = [w \in Workers |-> {}]
    /\ pullNames = [w \in Workers |-> {}]
    /\ pullOrder = [w \in Workers |-> <<>>]
    /\ pullResults = [w \in Workers |-> <<>>]
    /\ pending = [w \in Workers |-> <<>>]
    /\ events = [w \in Workers |-> <<>>]
    /\ beforeOutcome = [w \in Workers |-> "none"]
    /\ afterOutcome = [w \in Workers |-> "none"]
    /\ snapBefore = [w \in Workers |-> NoSnapshot]
    /\ captured = [w \in Workers |-> FALSE]
    /\ workAdded = [w \in Workers |-> {}]
    /\ workDeleted = [w \in Workers |-> {}]
    /\ cycleKind = [w \in Workers |-> "normal"]

\* What every hook entry does to the bookkeeping of the cycle.
StartCycle(w) ==
    /\ pullOrder' = [pullOrder EXCEPT ![w] = <<>>]
    /\ pullResults' = [pullResults EXCEPT ![w] = <<>>]
    /\ pending' = [pending EXCEPT ![w] = <<>>]
    /\ events' = [events EXCEPT ![w] = <<>>]
    /\ afterOutcome' = [afterOutcome EXCEPT ![w] = "none"]
    /\ snapBefore' = [snapBefore EXCEPT ![w] = snapshot[w]]
    /\ workAdded' = [workAdded EXCEPT ![w] = {}]
    /\ workDeleted' = [workDeleted EXCEPT ![w] = {}]
    /\ cycleKind' = [cycleKind EXCEPT ![w] =
                        IF @ = "abandoned" THEN "after_abandoned" ELSE "normal"]

\* sync_data_before_change up to the listing in pull_all_remote_files, when
\* get_remote_file_names returns.
PullStart(w) ==
    /\ pc[w] = "idle"
    /\ StartCycle(w)
    /\ remote_files' = [remote_files EXCEPT ![w] = remote]
    /\ pullNames' = [pullNames EXCEPT ![w] = remote]
    /\ beforeOutcome' = [beforeOutcome EXCEPT ![w] = "none"]
    /\ pc' = [pc EXCEPT ![w] = "pulling"]
    /\ UNCHANGED <<local, remote, driver, snapshot, captured>>

EnumFailsSwallowed(w) ==
    /\ pc[w] = "idle"
    /\ StartCycle(w)
    /\ remote_files' = [remote_files EXCEPT ![w] = {}]
    /\ pullNames' = [pullNames EXCEPT ![w] = {}]
    /\ beforeOutcome' = [beforeOutcome EXCEPT ![w] = "EnumError"]
    /\ pc' = [pc EXCEPT ![w] = "capture"]
    /\ UNCHANGED <<local, remote, driver, snapshot, captured>>

\* sync_data_before_change when get_remote_file_names raises: the except
\* branch of pull_all_remote_files re-raises and the hook ends there.
EnumFails(w) ==
    /\ pc[w] = "idle"
    /\ StartCycle(w)
    /\ remote_files' = [remote_files EXCEPT ![w] = {}]
    /\ pullNames' = [pullNames EXCEPT ![w] = {}]
    /\ beforeOutcome' = [beforeOutcome EXCEPT ![w] = "EnumError"]
    /\ pc' = [pc EXCEPT ![w] = "failed"]
    /\ UNCHANGED <<local, remote, driver, snapshot, captured>>

PullCopyStopOnFail(w) ==
    /\ pc[w] = "pulling"
    /\ \E file_name \in remote_files[w], o \in Outcomes(driver) :
          LET copied == o = "ok" /\ file_name \in remote IN
          /\ pullOrder' = [pullOrder EXCEPT ![w] = Append(@, file_name)]
          /\ IF o = "raise"
             THEN /\ beforeOutcome' = [beforeOutcome EXCEPT ![w] = "CopyError"]
                  /\ pc' = [pc EXCEPT ![w] = "failed"]
                  /\ UNCHANGED <<local, pullResults, remote_files>>
             ELSE /\ local' = IF copied THEN local \cup {file_name} ELSE local
                  /\ pullResults' = [pullResults EXCEPT ![w] = Append(@, copied)]
                  /\ remote_files' = [remote_files EXCEPT ![w] =
                                         IF copied THEN @ \ {file_name} ELSE {}]
                  /\ UNCHANGED <<beforeOutcome, pc>>
    /\ UNCHANGED <<remote, driver, snapshot, pullNames, pending, events,
                   afterOutcome, snapBefore, captured,
                   workAdded, workDeleted, cycleKind>>

\* One iteration of the list comprehension of pull_all_remote_files:
\* copy_from_remote(file_name).  _copy_file and _download_file return True
\* when the copy worked and False from their except branch; the copy needs
\* the file to be at the remote.  A raise out of the driver leaves through
\* the except branch of pull_all_remote_files, which re-raises.
PullCopy(w) ==
    /\ pc[w] = "pulling"
    /\ \E file_name \in remote_files[w], o \in Outcomes(driver) :
          LET copied == o = "ok" /\ file_name \in remote IN
          /\ pullOrder' = [pullOrder EXCEPT ![w] = Append(@, file_name)]
          /\ IF o = "raise"
             THEN /\ beforeOutcome' = [beforeOutcome EXCEPT ![w] = "CopyError"]
                  /\ pc' = [pc EXCEPT ![w] = "failed"]
                  /\ UNCHANGED <<local, pullResults, remote_files>>
             ELSE /\ local' = IF copied THEN local \cup {file_name} ELSE local
                  /\ pullResults' = [pullResults EXCEPT ![w] = Append(@, copied)]
                  /\ remote_files' = [remote_files EXCEPT ![w] = @ \ {file_name}]
                  /\ UNCHANGED <<beforeOutcome, pc>>
    /\ UNCHANGED <<remote, driver, snapshot, pullNames, pending, events,
                   afterOutcome, snapBefore, captured,
                   workAdded, workDeleted, cycleKind>>

PullDoneMirror(w) ==
    /\ pc[w] = "pulling"
    /\ remote_files[w] = {}
    /\ pc' = [pc EXCEPT ![w] = "capture"]
    /\ local' = local \cap pullNames[w]
    /\ UNCHANGED <<remote, driver, snapshot, remote_files, pullNames,
                   pullOrder, pullResults, pending, events, beforeOutcome,
                   afterOutcome, snapBefore, captured,
                   workAdded, workDeleted, cycleKind>>

\* pull_all_remote_files returns results; sync_data_before_change goes on to
\* store_local_snapshot.
PullDone(w) ==
    /\ pc[w] = "pulling"
    /\ remote_files[w] = {}
    /\ pc' = [pc EXCEPT ![w] = "capture"]
    /\ UNCHANGED <<local, remote, driver, snapshot, remote_files, pullNames,
                   pullOrder, pullResults, pending, events, beforeOutcome,
                   afterOutcome, snapBefore, captured,
                   workAdded, workDeleted, cycleKind>>

\* The outcomes of the two local listings that end sync_data_before_change:
\* the one store_local_snapshot assigns and the one passed to LOGGER.debug.
ListingOutcomes == {"ok", "snapshot_listing_raises", "debug_listing_raises"}

\* store_local_snapshot, then LOGGER.debug(get_local_contents()) and the
\* return of sync_data_before_change.  os.listdir can raise in either
\* listing; the second one runs after the snapshot was assigned.
StoreLocalSnapshot(w) ==
    /\ pc[w] = "capture"
    /\ \E o \in ListingOutcomes :
          /\ snapshot' = [snapshot EXCEPT ![w] =
                             IF o = "snapshot_listing_raises" THEN @ ELSE Stored(local)]
          /\ captured' = [captured EXCEPT ![w] = @ \/ o # "snapshot_listing_raises"]
          /\ beforeOutcome' = [beforeOutcome EXCEPT ![w] =
                                  IF o = "ok" THEN "ok" ELSE "ListError"]
          /\ pc' = [pc EXCEPT ![w] = IF o = "ok" THEN "work" ELSE "failed"]
    /\ UNCHANGED <<local, remote, driver, remote_files, pullNames, pullOrder,
                   pullResults, pending, events, afterOutcome, snapBefore,
                   workAdded, workDeleted, cycleKind>>

\* The request handler stores a package file.
LocalAdd(w) ==
    /\ pc[w] = "work"
    /\ \E file_name \in Names \ local :
          /\ local' = local \cup {file_name}
          /\ workAdded' = [workAdded EXCEPT ![w] =
                              IF file_name \in workDeleted[w] THEN @ ELSE @ \cup {file_name}]
          /\ workDeleted' = [workDeleted EXCEPT ![w] = @ \ {file_name}]
    /\ UNCHANGED <<remote, driver, pc, snapshot, remote_files, pullNames, pullOrder,
                   pullResults, pending, events, beforeOutcome, afterOutcome,
                   snapBefore, captured,
                   cycleKind>>

\* The request handler removes a package file.
LocalRemove(w) ==
    /\ pc[w] = "work"
    /\ \E file_name \in local :
          /\ local' = local \ {file_name}
          /\ workDeleted' = [workDeleted EXCEPT ![w] =
                                IF file_name \in workAdded[w] THEN @ ELSE @ \cup {file_name}]
          /\ workAdded' = [workAdded EXCEPT ![w] = @ \ {file_name}]
    /\ UNCHANGED <<remote, driver, pc, snapshot, remote_files, pullNames, pullOrder,
                   pullResults, pending, events, beforeOutcome, afterOutcome,
                   snapBefore, captured,
                   cycleKind>>

\* The worker process ends while its request handler runs: no after_request
\* hook is called, and get_app() builds a new plugin and StorageClient, whose
\* _current_local_contents is None.  The directories stay as they are.
Abandon(w) ==
    /\ pc[w] = "work"
    /\ pc' = [pc EXCEPT ![w] = "idle"]
    /\ snapshot' = [snapshot EXCEPT ![w] = NoSnapshot]
    /\ captured' = [captured EXCEPT ![w] = FALSE]
    /\ cycleKind' = [cycleKind EXCEPT ![w] = "abandoned"]
    /\ UNCHANGED <<local, remote, driver, remote_files, pullNames, pullOrder,
                   pullResults, pending, events, beforeOutcome, afterOutcome,
                   snapBefore, workAdded, workDeleted>>

\* bottle runs the after_request hooks when the handler has returned and
\* also when a before_request hook raised.
AfterHookDue(w) == pc[w] \in {"work", "failed"}

\* sync_data_after_change, first next() on the generator:
\* get_last_local_snapshot raises ValueError, which nothing catches.
SnapshotMissing(w) ==
    /\ AfterHookDue(w)
    /\ get_last_local_snapshot(snapshot[w]).raises
    /\ afterOutcome' = [afterOutcome EXCEPT ![w] = "ValueError"]
    /\ pc' = [pc EXCEPT ![w] = "idle"]
    /\ UNCHANGED <<local, remote, driver, snapshot, remote_files, pullNames,
                   pullOrder, pullResults, pending, events, beforeOutcome,
                   snapBefore, captured,
                   workAdded, workDeleted, cycleKind>>

\* sync_data_after_change, first next() on the generator: the listing in
\* get_local_contents raises, which nothing catches.
ListingFails(w) ==
    /\ AfterHookDue(w)
    /\ ~ get_last_local_snapshot(snapshot[w]).raises
    /\ afterOutcome' = [afterOutcome EXCEPT ![w] = "ListError"]
    /\ pc' = [pc EXCEPT ![w] = "idle"]
    /\ UNCHANGED <<local, remote, driver, snapshot, remote_files, pullNames,
                   pullOrder, pullResults, pending, events, beforeOutcome,
                   snapBefore, captured,
                   workAdded, workDeleted, cycleKind>>

\* sync_data_after_change, first next() on the generator: both differences
\* are computed and the first event is yielded to upload_to_remote.
ComputeChangeEvents(w) ==
    /\ AfterHookDue(w)
    /\ ~ get_last_local_snapshot(snapshot[w]).raises
    /\ LET change_events ==
               get_change_events(get_last_local_snapshot(snapshot[w]).value, local) IN
       /\ events' = [events EXCEPT ![w] = <<NewEvent(Head(change_events))>>]
       /\ pending' = [pending EXCEPT ![w] = Tail(change_events)]
    /\ pc' = [pc EXCEPT ![w] = "process"]
    /\ UNCHANGED <<local, remote, driver, snapshot, remote_files, pullNames,
                   pullOrder, pullResults, beforeOutcome, afterOutcome,
                   snapBefore, captured,
                   workAdded, workDeleted, cycleKind>>

\* The event process() is working on.
CurrentEvent(w) == events[w][Len(events[w])]

\* The names of the current event that handle() was not yet called with.
Todo(w) == CurrentEvent(w).difference \ CurrentEvent(w).handled

HandleUncaught(w) ==
    /\ pc[w] = "process"
    /\ \E file_name \in Todo(w), o \in Outcomes(driver) :
          LET e == CurrentEvent(w)
              removed == e.type = REMOVAL /\ o = "ok" /\ file_name \in remote
              uploaded == e.type = ADDITION /\ o = "ok" /\ file_name \in local
              flag == removed \/ uploaded
              raised == o = "raise"
              falses == IF raised \/ flag THEN e.falses ELSE e.falses \cup {file_name}
          IN
          /\ remote' = IF removed THEN remote \ {file_name}
                       ELSE IF uploaded THEN remote \cup {file_name}
                       ELSE remote
          /\ events' = [events EXCEPT ![w][Len(events[w])] =
                           [e EXCEPT !.handled = @ \cup {file_name},
                                     !.falses = falses,
                                     !.raisedOn = IF raised THEN {file_name} ELSE {},
                                     !.done = raised,
                                     !.ret = process_return(falses, raised)]]
          /\ pc' = [pc EXCEPT ![w] = IF raised THEN "idle" ELSE "process"]
          /\ afterOutcome' = [afterOutcome EXCEPT ![w] =
                                 IF raised THEN "HandleError" ELSE @]
    /\ UNCHANGED <<local, driver, snapshot, remote_files, pullNames, pullOrder,
                   pullResults, pending, beforeOutcome, snapBefore, captured,
                   workAdded, workDeleted, cycleKind>>

HandleContinues(w) ==
    /\ pc[w] = "process"
    /\ \E file_name \in Todo(w), o \in Outcomes(driver) :
          LET e == CurrentEvent(w)
              removed == e.type = REMOVAL /\ o = "ok" /\ file_name \in remote
              uploaded == e.type = ADDITION /\ o = "ok" /\ file_name \in local
              flag == removed \/ uploaded
              raised == o = "raise"
              falses == IF raised \/ flag THEN e.falses ELSE e.falses \cup {file_name}
          IN
          /\ remote' = IF removed THEN remote \ {file_name}
                       ELSE IF uploaded THEN remote \cup {file_name}
                       ELSE remote
          /\ events' = [events EXCEPT ![w][Len(events[w])] =
                           [e EXCEPT !.handled = @ \cup {file_name},
                                     !.falses = falses,
                                     !.raisedOn = IF raised THEN {file_name} ELSE {},
                                     !.done = FALSE,
                                     !.ret = process_return(falses, raised)]]
          /\ pc' = [pc EXCEPT ![w] = "process"]
    /\ UNCHANGED <<local, driver, snapshot, remote_files, pullNames, pullOrder,
                   pullResults, pending, beforeOutcome, afterOutcome, snapBefore,
                   captured,
                   workAdded, workDeleted, cycleKind>>

\* One iteration of the list comprehension of process(): handle(file_name),
\* which is remove_from_remote for a removal and upload_to_remote for an
\* addition.  The driver returns True when the file was removed or copied
\* and False from its except branch; a raise out of the driver ends
\* process() in its except branch.
Handle(w) ==
    /\ pc[w] = "process"
    /\ \E file_name \in Todo(w), o \in Outcomes(driver) :
          LET e == CurrentEvent(w)
              removed == e.type = REMOVAL /\ o = "ok" /\ file_name \in remote
              uploaded == e.type = ADDITION /\ o = "ok" /\ file_name \in local
              flag == removed \/ uploaded
              raised == o = "raise"
              falses == IF raised \/ flag THEN e.falses ELSE e.falses \cup {file_name}
          IN
          /\ remote' = IF removed THEN remote \ {file_name}
                       ELSE IF uploaded THEN remote \cup {file_name}
                       ELSE remote
          /\ events' = [events EXCEPT ![w][Len(events[w])] =
                           [e EXCEPT !.handled = @ \cup {file_name},
                                     !.falses = falses,
                                     !.raisedOn = IF raised THEN {file_name} ELSE {},
                                     !.done = raised,
                                     !.ret = process_return(falses, raised)]]
          /\ pc' = [pc EXCEPT ![w] = IF raised THEN "yield" ELSE "process"]
    /\ UNCHANGED <<local, driver, snapshot, remote_files, pullNames, pullOrder,
                   pullResults, pending, beforeOutcome, afterOutcome, snapBefore,
                   captured,
                   workAdded, workDeleted, cycleKind>>

\* process() returns True after the list comprehension is exhausted.
ProcessReturn(w) ==
    /\ pc[w] = "process"
    /\ Todo(w) = {}
    /\ events' = [events EXCEPT ![w][Len(events[w])] =
                     [CurrentEvent(w) EXCEPT !.done = TRUE,
                         !.ret = process_return(CurrentEvent(w).falses, FALSE)]]
    /\ pc' = [pc EXCEPT ![w] = "yield"]
    /\ UNCHANGED <<local, remote, driver, snapshot, remote_files, pullNames,
                   pullOrder, pullResults, pending, beforeOutcome, afterOutcome,
                   snapBefore, captured,
                   workAdded, workDeleted, cycleKind>>

\* The list comprehension of sync_data_after_change resumes the generator,
\* which yields its next event.
YieldNext(w) ==
    /\ pc[w] = "yield"
    /\ pending[w] # <<>>
    /\ events' = [events EXCEPT ![w] = Append(@, NewEvent(Head(pending[w])))]
    /\ pending' = [pending EXCEPT ![w] = Tail(@)]
    /\ pc' = [pc EXCEPT ![w] = "process"]
    /\ UNCHANGED <<local, remote, driver, snapshot, remote_files, pullNames,
                   pullOrder, pullResults, beforeOutcome, afterOutcome,
                   snapBefore, captured,
                   workAdded, workDeleted, cycleKind>>

AfterReturnRefreshing(w) ==
    /\ pc[w] = "yield"
    /\ pending[w] = <<>>
    /\ afterOutcome' = [afterOutcome EXCEPT ![w] = "ok"]
    /\ pc' = [pc EXCEPT ![w] = "idle"]
    /\ snapshot' = [snapshot EXCEPT ![w] = Stored(local)]
    /\ UNCHANGED <<local, remote, driver, remote_files, pullNames,
                   pullOrder, pullResults, pending, events, beforeOutcome,
                   snapBefore, captured,
                   workAdded, workDeleted, cycleKind>>

\* The generator is exhausted: sync_data_after_change logs result and returns.
AfterReturn(w) ==
    /\ pc[w] = "yield"
    /\ pending[w] = <<>>
    /\ afterOutcome' = [afterOutcome EXCEPT ![w] = "ok"]
    /\ pc' = [pc EXCEPT ![w] = "idle"]
    /\ UNCHANGED <<local, remote, driver, snapshot, remote_files, pullNames,
                   pullOrder, pullResults, pending, events, beforeOutcome,
                   snapBefore, captured,
                   workAdded, workDeleted, cycleKind>>

\* The result list of sync_data_after_change: what process() returned for
\* each event applied so far.
result(w) == [i \in 1 .. Len(events[w]) |-> events[w][i].ret]

Step(w) ==
    \/ PullStart(w)
    \/ EnumFails(w)
    \/ PullCopy(w)
    \/ PullDone(w)
    \/ StoreLocalSnapshot(w)
    \/ LocalAdd(w)
    \/ LocalRemove(w)
    \/ Abandon(w)
    \/ SnapshotMissing(w)
    \/ ListingFails(w)
    \/ ComputeChangeEvents(w)
    \/ Handle(w)
    \/ ProcessReturn(w)
    \/ YieldNext(w)
    \/ AfterReturn(w)

Next == \E w \in SingleWorker : Step(w)

\* One worker serving one request after the other.
Spec == Init /\ [][Next]_vars

\* Running locally: LocalFileStoreManager is the driver (RUNNING_DEV); the
\* two directories start in sync, with every name in both.
InitConcurrent == Init /\ driver = "local" /\ local = Names /\ remote = Names

\* The before_request hook of the first request a worker serves.
FirstRequest(w) == beforeOutcome[w] = "none" /\ pc[w] = "idle" /\ PullStart(w)

\* copy_from_remote returns True.
PullCopySucceeds(w) ==
    PullCopy(w) /\ pc'[w] = "pulling" /\ pullResults'[w][Len(pullResults'[w])]

\* Both local listings of the hook can be read.
StoreLocalSnapshotSucceeds(w) == StoreLocalSnapshot(w) /\ pc'[w] = "work"

\* remove_from_remote or upload_to_remote returns True.
HandleSucceeds(w) ==
    Handle(w) /\ pc'[w] = "process" /\ events'[w][Len(events'[w])].falses = {}

\* The steps of a worker that serves one request in which every driver
\* operation succeeds.
StepConcurrent(w) ==
    \/ FirstRequest(w)
    \/ PullCopySucceeds(w)
    \/ PullDone(w)
    \/ StoreLocalSnapshotSucceeds(w)
    \/ LocalAdd(w)
    \/ LocalRemove(w)
    \/ SnapshotMissing(w)
    \/ ComputeChangeEvents(w)
    \/ HandleSucceeds(w)
    \/ ProcessReturn(w)
    \/ YieldNext(w)
    \/ AfterReturn(w)

NextConcurrent == \E w \in Workers : StepConcurrent(w)

\* gunicorn -w 2: two worker processes, each with its own plugin and
\* StorageClient, serve requests on the same two directories; their steps
\* interleave.
SpecConcurrent == InitConcurrent /\ [][NextConcurrent]_vars

\* sync_data_after_change has ended on worker w, by return or by exception.
AfterDone(w) == pc[w] = "idle" /\ afterOutcome[w] # "none"

\* The events of the current cycle as (type, difference) pairs.
Yielded(w) ==
    [i \in 1 .. Len(events[w]) |->
        [type |-> events[w][i].type, difference |-> events[w][i].difference]]

\* The names remove_from_remote (t = REMOVAL) or upload_to_remote
\* (t = ADDITION) was called with in the current cycle.
Calls(w, t) ==
    UNION {events[w][i].handled : i \in {j \in 1 .. Len(events[w]) : events[w][j].type = t}}

\* No handle() call of the current cycle raised.
NoRaise(w) == \A i \in 1 .. Len(events[w]) : events[w][i].raisedOn = {}

\* Every copy, removal and upload of the current cycle returned True.
AllSucceeded(w) ==
    /\ \A i \in 1 .. Len(pullResults[w]) : pullResults[w][i]
    /\ \A i \in 1 .. Len(events[w]) : events[w][i].falses = {}
    /\ NoRaise(w)

\* C1: whenever sync_data_after_change has consumed get_change_events on a
\* client that stored a snapshot and the local listing could be read, exactly
\* two events were yielded, the removal with snapshot - current first and the
\* addition with current - snapshot second.
C1_TwoEventsInOrder ==
    \A w \in Workers :
        (AfterDone(w) /\ captured[w] /\ afterOutcome[w] # "ListError")
            => Yielded(w) = get_change_events(snapshot[w].names, local)

\* C2: once store_local_snapshot has assigned a snapshot, whatever the
\* listing held, get_last_local_snapshot returns it without raising; it
\* raises exactly when no snapshot was ever stored.
C2_SnapshotReturnedOnceStored ==
    \A w \in Workers :
        get_last_local_snapshot(snapshot[w]) =
            IF captured[w]
            THEN [raises |-> FALSE, value |-> snapshot[w].names]
            ELSE [raises |-> TRUE, value |-> {}]

\* C3: on a client that never stored a snapshot, consuming get_change_events
\* ends in ValueError; no event is yielded or processed and the hook never
\* ends normally.
C3_NoSnapshotRaises ==
    \A w \in Workers :
        ~ captured[w] =>
            /\ events[w] = <<>>
            /\ pending[w] = <<>>
            /\ pc[w] \notin {"process", "yield"}
            /\ afterOutcome[w] \in {"none", "ValueError"}
            /\ (AfterDone(w) => afterOutcome[w] = "ValueError")

\* C3 witness: sync_data_after_change ran on a client without a snapshot and
\* ended in ValueError.
C3_Witness ==
    \E w \in Workers : ~ captured[w] /\ AfterDone(w) /\ afterOutcome[w] = "ValueError"

\* C4: sync_data_after_change never ends by an exception.
C4_AfterNeverRaises ==
    \A w \in Workers : afterOutcome[w] \in {"none", "ok"}

\* C5: process() returned False exactly for the events in which a handle()
\* call raised, whatever the driver returned for the other names, and an
\* event with an empty difference returned True with no driver call.
C5_FalseIffRaised ==
    \A w \in Workers : \A i \in 1 .. Len(events[w]) :
        LET e == events[w][i] IN
        e.done =>
            /\ (e.ret = FALSE) <=> (e.raisedOn # {})
            /\ (e.difference = {} => e.ret /\ e.handled = {})

\* C5 witness: in one hook call an event whose driver returned False for a
\* name returned True, and an event in which the driver raised returned False.
C5_Witness ==
    \E w \in Workers : \E i, j \in 1 .. Len(events[w]) :
        /\ AfterDone(w)
        /\ events[w][i].falses # {} /\ events[w][i].raisedOn = {} /\ events[w][i].ret
        /\ events[w][j].raisedOn # {} /\ ~ events[w][j].ret

\* C6: at the end of a cycle whose before hook returned and in which no
\* driver call raised, remove_from_remote was called with exactly the names
\* of the snapshot that are gone locally and upload_to_remote with exactly
\* the local names that are not in the snapshot.
C6_CallsAreTheDifferences ==
    \A w \in Workers :
        (AfterDone(w) /\ beforeOutcome[w] = "ok" /\ afterOutcome[w] # "ListError"
            /\ NoRaise(w))
            => /\ Calls(w, REMOVAL) = snapshot[w].names \ local
               /\ Calls(w, ADDITION) = local \ snapshot[w].names

\* C7: at the end of a cycle whose before hook returned and in which every
\* driver operation succeeded, the remote holds the same names as the local
\* directory.
C7_RemoteEqualsLocal ==
    \A w \in Workers :
        (AfterDone(w) /\ beforeOutcome[w] = "ok" /\ afterOutcome[w] # "ListError"
            /\ AllSucceeded(w))
            => remote = local

\* C8: a hook call applies at most one removal and then one addition; the
\* addition is yielded only when process() of the removal has ended, so no
\* upload_to_remote call precedes a remove_from_remote call, and a hook call
\* that returns has applied both events once.
C8_RemovalThenAddition ==
    \A w \in Workers :
        /\ Len(events[w]) <= 2
        /\ \A i \in 1 .. Len(events[w]) :
              events[w][i].type = IF i = 1 THEN REMOVAL ELSE ADDITION
        /\ \A i \in 1 .. Len(events[w]) :
              (events[w][i].type = ADDITION /\ events[w][i].handled # {})
                  => \A j \in 1 .. Len(events[w]) :
                         events[w][j].type = REMOVAL => events[w][j].done /\ j < i
        /\ (Len(events[w]) = 2 => events[w][1].done)
        /\ (afterOutcome[w] = "ok" =>
               /\ Len(events[w]) = 2
               /\ events[w][1].done /\ events[w][2].done)

\* C8 witness: a hook call has returned after both remove_from_remote and
\* upload_to_remote were called.
C8_Witness ==
    \E w \in Workers :
        /\ afterOutcome[w] = "ok"
        /\ Calls(w, REMOVAL) # {}
        /\ Calls(w, ADDITION) # {}

\* C4, amended: sync_data_after_change ends by an exception only when the
\* first next() on the generator fails, before any event is yielded:
\* ValueError from get_last_local_snapshot or a failing local listing.  Once
\* an event was yielded the hook returns normally, whatever raised while the
\* events were applied.
C4_OnlyDiffFailuresPropagate ==
    \A w \in Workers :
        /\ afterOutcome[w] \in {"none", "ok", "ValueError", "ListError"}
        /\ (afterOutcome[w] \in {"ValueError", "ListError"} => events[w] = <<>>)
        /\ (afterOutcome[w] = "ValueError" => get_last_local_snapshot(snapshot[w]).raises)
        /\ ((AfterDone(w) /\ events[w] # <<>>) => afterOutcome[w] = "ok")

\* C4 witness: a hook call returned normally although a handle() call raised.
C4_Witness ==
    \E w \in Workers : \E i \in 1 .. Len(events[w]) :
        AfterDone(w) /\ afterOutcome[w] = "ok" /\ events[w][i].raisedOn # {}

\* The names pull_all_remote_files has called copy_from_remote with.
Copied(w) == {pullOrder[w][i] : i \in 1 .. Len(pullOrder[w])}

\* pull_all_remote_files has copied every name it listed.
PullComplete(w) ==
    /\ remote_files[w] = {}
    /\ Copied(w) = pullNames[w]
    /\ Len(pullResults[w]) = Cardinality(pullNames[w])

\* C9: store_local_snapshot runs only when pull_all_remote_files has copied
\* every listed name and returned; when get_remote_file_names raised, the
\* hook has ended by that exception, nothing was copied, the pull is not
\* started again and the snapshot is the one the hook found.
C9_PullThenSnapshot ==
    \A w \in Workers :
        /\ (pc[w] = "capture" => PullComplete(w) /\ beforeOutcome[w] = "none")
        /\ (snapshot[w] # snapBefore[w] =>
               PullComplete(w) /\ beforeOutcome[w] \in {"ok", "ListError"})
        /\ (beforeOutcome[w] = "EnumError" =>
               /\ snapshot[w] = snapBefore[w]
               /\ pc[w] \notin {"pulling", "capture", "work"}
               /\ pullOrder[w] = <<>>)

\* C9 witness: the remote listing failed in a hook call that would have
\* replaced an older snapshot by a different listing.
C9_Witness ==
    \E w \in Workers :
        /\ pc[w] = "failed"
        /\ beforeOutcome[w] = "EnumError"
        /\ captured[w]
        /\ snapshot[w].names # local

\* C10: with LocalFileStoreManager or the Cloud Storage driver,
\* pull_all_remote_files never ends by an exception of a copy; it calls
\* copy_from_remote once for each listed name and appends one flag per call,
\* True only when the file was copied, and when it returns every listed name
\* was tried, also the ones after a failed copy.
C10_OneFlagPerName ==
    driver \in ConcreteDrivers =>
        \A w \in Workers :
            /\ beforeOutcome[w] # "CopyError"
            /\ Len(pullResults[w]) = Len(pullOrder[w])
            /\ Cardinality(Copied(w)) = Len(pullOrder[w])
            /\ Copied(w) = pullNames[w] \ remote_files[w]
            /\ ((pc[w] \in {"capture", "work"} \/ beforeOutcome[w] \in {"ok", "ListError"})
                   => PullComplete(w))
            /\ (pc[w] \in {"pulling", "capture"} =>
                   \A i \in 1 .. Len(pullResults[w]) :
                       pullResults[w][i] => pullOrder[w][i] \in local)

\* C10 witness: a pull has returned in which a copy failed and a later copy
\* succeeded.
C10_Witness ==
    \E w \in Workers : \E i, j \in 1 .. Len(pullResults[w]) :
        /\ driver \in ConcreteDrivers
        /\ pc[w] = "capture"
        /\ i < j
        /\ ~ pullResults[w][i]
        /\ pullResults[w][j]

\* The names of the events of type t among the events evs.
Difference(evs, t) ==
    UNION {evs[i].difference : i \in {j \in 1 .. Len(evs) : evs[j].type = t}}

\* Both events of the current hook call: the yielded ones and the one the
\* generator still holds.
ChangeEvents(w) == Yielded(w) \o pending[w]

\* C11: with LocalFileStoreManager or the Cloud Storage driver no
\* remove_from_remote or upload_to_remote call raises, whatever the transfer
\* did: a call that returned True has removed the name from, or put it at,
\* the remote, a failed one returned False, and so no event ends in the
\* except branch of process().
C11_ConcreteDriversNeverRaise ==
    driver \in ConcreteDrivers =>
        \A w \in Workers : \A i \in 1 .. Len(events[w]) :
            LET e == events[w][i] IN
            /\ e.raisedOn = {}
            /\ (e.done => e.ret)
            /\ (e.type = REMOVAL => (e.handled \ e.falses) \cap remote = {})
            /\ (e.type = ADDITION => (e.handled \ e.falses) \subseteq remote)

\* C11 witness: with a shipped driver a hook call has returned in which one
\* transfer failed and another one worked.
C11_Witness ==
    \E w \in Workers : \E i, j \in 1 .. Len(events[w]) :
        /\ driver \in ConcreteDrivers
        /\ AfterDone(w)
        /\ events[w][i].falses # {}
        /\ events[w][j].handled \ events[w][j].falses # {}

\* C12: when process() of the removal returned False, the generator is
\* resumed and the addition is applied in the same hook call: the hook does
\* not end before process() of the addition has ended.
C12_SiblingEventStillApplied ==
    \A w \in Workers :
        (events[w] # <<>> /\ events[w][1].done /\ ~ events[w][1].ret) =>
            /\ pc[w] \in {"yield", "process", "idle"}
            /\ (Len(events[w]) = 1 => pc[w] = "yield" /\ Len(pending[w]) = 1
                                      /\ pending[w][1].type = ADDITION)
            /\ (pc[w] = "idle" =>
                   /\ Len(events[w]) = 2
                   /\ events[w][2].type = ADDITION
                   /\ events[w][2].done
                   /\ (events[w][2].raisedOn = {} =>
                          events[w][2].handled = events[w][2].difference))

\* C12 witness: a hook call has returned in which the removal ended by an
\* exception and upload_to_remote was called for the addition.
C12_Witness ==
    \E w \in Workers :
        /\ AfterDone(w)
        /\ Len(events[w]) = 2
        /\ events[w][1].raisedOn # {}
        /\ ~ events[w][1].ret
        /\ events[w][2].handled # {}

\* C13: for the stored snapshot and the local listing of every state, and
\* for the events of every hook call that got them, the removal and the
\* addition difference are disjoint and the current listing is the snapshot
\* without the removed names plus the added ones.
C13_DifferencesPartition ==
    /\ \A w \in Workers :
          LET prev == snapshot[w].names
              removed == Difference(get_change_events(prev, local), REMOVAL)
              added == Difference(get_change_events(prev, local), ADDITION)
          IN  /\ removed \cap added = {}
              /\ local = (prev \ removed) \cup added
    /\ \A w \in Workers :
          events[w] # <<>> =>
              LET removed == Difference(ChangeEvents(w), REMOVAL)
                  added == Difference(ChangeEvents(w), ADDITION)
              IN  /\ removed \cap added = {}
                  /\ local = (snapshot[w].names \ removed) \cup added

\* C13 witness: a hook call got its events with a name removed, a name added
\* and neither difference empty.
C13_Witness ==
    \E w \in Workers :
        /\ events[w] # <<>>
        /\ Difference(ChangeEvents(w), REMOVAL) # {}
        /\ Difference(ChangeEvents(w), ADDITION) # {}

\* C14: when a snapshot was stored over an equal one and the local directory
\* still is as stored, a hook call that could read the listing has yielded a
\* removal and an addition that are both empty.
C14_NoChangeNoDifference ==
    \A w \in Workers :
        (/\ AfterDone(w)
         /\ beforeOutcome[w] = "ok"
         /\ afterOutcome[w] # "ListError"
         /\ ~ snapBefore[w].is_none
         /\ snapBefore[w].names = snapshot[w].names
         /\ local = snapshot[w].names)
            => Yielded(w) = << [type |-> REMOVAL, difference |-> {}],
                               [type |-> ADDITION, difference |-> {}] >>

\* C15: the snapshot of a worker changes only in store_local_snapshot (or
\* with the process); the pull, get_change_events and process() leave it, so
\* when a hook call has returned, computing the events again from the stored
\* snapshot and the local listing gives the events it has just applied.
C15_SnapshotOnlyStoredByCapture ==
    [][\A w \in Workers :
          /\ snapshot'[w] # snapshot[w] => pc[w] \in {"capture", "work"}
          /\ (pc[w] \in {"process", "yield"} /\ pc'[w] = "idle") =>
                /\ ~ get_last_local_snapshot(snapshot'[w]).raises
                /\ get_change_events(get_last_local_snapshot(snapshot'[w]).value, local')
                      = Yielded(w)]_vars

\* C15 witness: a hook call has returned after it removed a name from the
\* remote and uploaded another one, so that the events it would compute again
\* are not empty.
C15_Witness ==
    \E w \in Workers :
        /\ AfterDone(w)
        /\ afterOutcome[w] = "ok"
        /\ Len(events[w]) = 2
        /\ events[w][1].handled \ events[w][1].falses # {}
        /\ events[w][2].handled \ events[w][2].falses # {}

\* The names of the current cycle for which remove_from_remote (t = REMOVAL)
\* or upload_to_remote (t = ADDITION) returned True.
Transferred(w, t) ==
    UNION {events[w][i].handled \ (events[w][i].falses \cup events[w][i].raisedOn) :
              i \in {j \in 1 .. Len(events[w]) : events[w][j].type = t}}

\* C16: with two workers on the same directories, when the after hook of a
\* worker has ended and every driver operation of both workers succeeded,
\* every name its request handler removed was removed from the remote by its
\* hook and every name its handler added was uploaded by its hook.
C16_WorkerChangesReachRemote ==
    \A w \in Workers :
        (AfterDone(w) /\ beforeOutcome[w] = "ok" /\ \A v \in Workers : AllSucceeded(v))
            => /\ workDeleted[w] \subseteq Transferred(w, REMOVAL)
               /\ workAdded[w] \subseteq Transferred(w, ADDITION)

\* C17: the request handler runs only after the pull and the snapshot, the
\* events are applied only after they were computed, and in the cycle that
\* follows an abandoned one the removal and the addition name exactly the
\* names the request handler of that cycle removed and added.
C17_OnlyOwnChangesReported ==
    \A w \in Workers :
        /\ (pc[w] = "work" => PullComplete(w) /\ snapshot[w] = Stored(snapshot[w].names))
        /\ (pc[w] \in {"process", "yield"} => events[w] # <<>>)
        /\ (/\ cycleKind[w] = "after_abandoned"
            /\ AfterDone(w)
            /\ beforeOutcome[w] = "ok"
            /\ afterOutcome[w] # "ListError")
               => /\ Difference(Yielded(w), REMOVAL) = workDeleted[w]
                  /\ Difference(Yielded(w), ADDITION) = workAdded[w]

\* C18: an event in which a handle() call raised has ended at that call and
\* returned False: the names handled before it are removed from, or are at,
\* the remote, and process() is not working on the event any more, so the
\* names left in its difference get no driver call.
C18_RaiseStopsEvent ==
    \A w \in Workers : \A i \in 1 .. Len(events[w]) :
        LET e == events[w][i] IN
        e.raisedOn # {} =>
            /\ e.done
            /\ ~ e.ret
            /\ Cardinality(e.raisedOn) = 1
            /\ e.raisedOn \subseteq e.handled
            /\ (i = Len(events[w]) => pc[w] # "process")
            /\ (e.type = REMOVAL => (e.handled \ (e.falses \cup e.raisedOn)) \cap remote = {})
            /\ (e.type = ADDITION => (e.handled \ (e.falses \cup e.raisedOn)) \subseteq remote)

\* C18 witness: a hook call has returned with an event in which a call
\* raised while a name of its difference was not handled yet.
C18_Witness ==
    \E w \in Workers : \E i \in 1 .. Len(events[w]) :
        /\ AfterDone(w)
        /\ events[w][i].raisedOn # {}
        /\ events[w][i].difference \ events[w][i].handled # {}

\* C19: the remote changes only in a handle() call of an event; the local
\* directory changes only in the pull, which adds names the remote listing
\* held and removes none, and in the request handler.
C19_HooksFrame ==
    [][/\ remote' # remote =>
             \E w \in Workers : pc[w] = "process" /\ pc'[w] \in {"process", "yield"}
       /\ local' # local =>
             \E w \in Workers :
                 \/ /\ pc[w] = "pulling"
                    /\ local \subseteq local'
                    /\ local' \ local \subseteq pullNames[w]
                 \/ pc[w] = "work" /\ pc'[w] = "work"]_vars

\* C19 witness: a pull has copied a file and returned while a file that is
\* only local is still there.
C19_Witness ==
    \E w \in Workers :
        /\ pc[w] = "capture"
        /\ \E i \in 1 .. Len(pullResults[w]) : pullResults[w][i]
        /\ local \ pullNames[w] # {}

====
